---- MODULE Spec2Model ----
(***************************************************************************)
(* State-machine model of src/index.tsx (The Alchemist's Studio): the App  *)
(* component's React state, the hero-item classification effect, the       *)
(* asynchronous handleGenerate pipeline and the request it assembles, and  *)
(* handleDownload with the crop rectangle it computes.                     *)
(*                                                                         *)
(* Every `await` of the source is a separate step, so UI events and other  *)
(* asynchronous completions interleave exactly where the event loop lets   *)
(* them.  A synchronous stretch of a handler (up to its first await, or    *)
(* between two awaits) is one atomic action, including the React effect    *)
(* that a state change schedules.                                          *)
(***************************************************************************)
EXTENDS Integers, Sequences, FiniteSets, TLC

\* ---------------------------------------------------------------- bounds
\* Number of File objects the user may pick during a run (hero + inspiration).
MaxUploads == 2
\* Number of distinct images the generation service may return.
MaxImages == 1
\* Largest width and height, in pixels, of the grid of image sizes.
MaxDim == 16
\* image loads of handleDownload that may be pending at once
MaxExports == 1

\* ------------------------------------------------------------- constants
Null == "null"
NoFile == 0
NoImage == 0

ApiKeyError == "The AI Alchemist is not configured correctly. Please contact the administrator to resolve this issue."
NoImageError == "The Alchemist couldn't generate an image. Try refining your inputs."
UnknownError == "An unknown error occurred."
\* message of an Error thrown by the external service / fetch
ServiceError == "service call failed"

MODEL_SHOT_SYSTEM_PROMPT == "MODEL_SHOT_SYSTEM_PROMPT"
PRODUCT_SHOT_SYSTEM_PROMPT == "PRODUCT_SHOT_SYSTEM_PROMPT"

accessoryCategories == {"Watch", "Bracelet", "Ring", "Necklace", "Earrings", "Handbag"}

\* Texts the classification service may answer (after trim): an accessory
\* label, another enumerated label, and a string outside the list ('Other'
\* is also what a failed classification stores).
ClassifierAnswers == {"Watch", "Dress", "Gadget"}

\* Values the creative-brief textarea / preset buttons may hold.
StylePrompts == {"", "A model on a neon-lit Tokyo street at night"}

Files == 1..MaxUploads
Images == 1..MaxImages

\* Images are numbered, and the number fixes the natural size: images
\* 1..MaxDim*MaxDim run through the grid of sizes 1..MaxDim x 1..MaxDim,
\* the two after them are a 1920x1080 and a 1080x1920 image.
GridImages == 1..(MaxDim * MaxDim)
Landscape1920x1080 == MaxDim * MaxDim + 1
Portrait1080x1920 == MaxDim * MaxDim + 2

\* img.naturalWidth
NaturalWidth(img) ==
    IF img = Landscape1920x1080 THEN 1920
    ELSE IF img = Portrait1080x1920 THEN 1080
    ELSE ((img - 1) % MaxDim) + 1

\* img.naturalHeight
NaturalHeight(img) ==
    IF img = Landscape1920x1080 THEN 1080
    ELSE IF img = Portrait1080x1920 THEN 1920
    ELSE ((img - 1) \div MaxDim) + 1

VARIABLES
    ai,                \* TRUE iff the GoogleGenAI client was constructed
    heroItem,          \* File id or NoFile
    inspirationPhoto,  \* File id or NoFile
    stylePrompt,
    generatedImage,    \* image id or NoImage
    isLoading,
    error,             \* message or Null
    itemCategory,      \* string or Null
    isIdentifying,
    shotType,          \* "model" | "product"
    nextFile,          \* identity of the next File object the browser hands over
    classifications,   \* File id -> invocation of identifyItemCategory
    generations,       \* invocations of handleGenerate (pending and last settled)
    uncaught,          \* TRUE once an exception reached the global handler
    isDownloadMenuOpen,
    downloads          \* invocations of handleDownload (pending image loads and settled)

vars == <<ai, heroItem, inspirationPhoto, stylePrompt, generatedImage, isLoading,
          error, itemCategory, isIdentifying, shotType, nextFile,
          classifications, generations, uncaught, isDownloadMenuOpen, downloads>>

\* ---------------------------------------------------------------- parts
TextPart(t) == [kind |-> "text", text |-> t]
ImagePart(d) == [kind |-> "inlineData", data |-> d]

\* base64 payload of an uploaded File
FileData(f) == <<"upload", f>>
\* payload of previous_lookbook.png, the blob fetched from the data URL
PreviousLookbookData(img) == <<"previous_lookbook.png", img>>

\* Faulty variant: the category test is left out (C9 depends on it).
IsProductShot_IgnoresCategory(st, cat) == st = "product"

\* shotType === 'product' && itemCategory && accessoryCategories.includes(itemCategory)
IsProductShot(st, cat) == st = "product" /\ cat # Null /\ cat # "" /\ cat \in accessoryCategories

ActiveSystemPrompt(g) ==
    IF IsProductShot(g.shotType, g.itemCategory) THEN PRODUCT_SHOT_SYSTEM_PROMPT
                                                 ELSE MODEL_SHOT_SYSTEM_PROMPT


\* --------------------------------------------------------------- Init
NoClassification == [pc |-> "none"]

Init ==
    /\ ai \in BOOLEAN
    /\ heroItem = NoFile
    /\ inspirationPhoto = NoFile
    /\ stylePrompt = ""
    /\ generatedImage = NoImage
    /\ isLoading = FALSE
    /\ error = Null
    /\ itemCategory = Null
    /\ isIdentifying = FALSE
    /\ shotType = "model"
    /\ nextFile = 1
    /\ classifications = [f \in Files |-> NoClassification]
    /\ generations = <<>>
    /\ uncaught = FALSE
    /\ isDownloadMenuOpen = FALSE
    /\ downloads = <<>>

\* Faulty variant: the handlers do not test the client (C4 depends on it).
ClientMissing_NeverChecked == FALSE

\* `!ai` of identifyItemCategory and handleGenerate
ClientMissing == ~ai

\* ------------------------------------------------- uploads and controls
\* onFileSelect of the hero uploader (its drop zone is rendered only while
\* no file is selected), followed by the [heroItem] effect: the synchronous
\* head of identifyItemCategory up to its first await.
SelectHeroItem ==
    /\ heroItem = NoFile
    /\ nextFile <= MaxUploads
    /\ heroItem' = nextFile
    /\ nextFile' = nextFile + 1
    /\ IF ClientMissing
         THEN /\ error' = ApiKeyError
              /\ UNCHANGED <<isIdentifying, itemCategory, shotType, classifications>>
         ELSE /\ isIdentifying' = TRUE
              /\ itemCategory' = Null
              /\ shotType' = "model"
              /\ classifications' =
                     [classifications EXCEPT ![nextFile] = [pc |-> "reading"]]
              /\ UNCHANGED error
    /\ UNCHANGED <<ai, isDownloadMenuOpen, downloads, inspirationPhoto, stylePrompt, generatedImage, isLoading,
                   generations, uncaught>>

\* onFileRemove of the hero uploader, followed by the [heroItem] effect.
RemoveHeroItem ==
    /\ heroItem # NoFile
    /\ heroItem' = NoFile
    /\ itemCategory' = Null
    /\ UNCHANGED <<ai, isDownloadMenuOpen, downloads, inspirationPhoto, stylePrompt, generatedImage, isLoading, error,
                   isIdentifying, shotType, nextFile, classifications, generations,
                   uncaught>>

\* onFileSelect of the inspiration uploader
SelectInspirationPhoto ==
    /\ inspirationPhoto = NoFile
    /\ nextFile <= MaxUploads
    /\ inspirationPhoto' = nextFile
    /\ nextFile' = nextFile + 1
    /\ UNCHANGED <<ai, isDownloadMenuOpen, downloads, heroItem, stylePrompt, generatedImage, isLoading, error,
                   itemCategory, isIdentifying, shotType, classifications, generations,
                   uncaught>>

\* onFileRemove of the inspiration uploader
RemoveInspirationPhoto ==
    /\ inspirationPhoto # NoFile
    /\ inspirationPhoto' = NoFile
    /\ UNCHANGED <<ai, isDownloadMenuOpen, downloads, heroItem, stylePrompt, generatedImage, isLoading, error,
                   itemCategory, isIdentifying, shotType, nextFile, classifications,
                   generations, uncaught>>

\* textarea onChange and the preset buttons
SetStylePrompt(p) ==
    /\ p # stylePrompt
    /\ stylePrompt' = p
    /\ UNCHANGED <<ai, isDownloadMenuOpen, downloads, heroItem, inspirationPhoto, generatedImage, isLoading, error,
                   itemCategory, isIdentifying, shotType, nextFile, classifications,
                   generations, uncaught>>

\* The shot-type selector is rendered only for an accessory category.
ShotTypeSelectorShown ==
    itemCategory # Null /\ itemCategory # "" /\ itemCategory \in accessoryCategories

SetShotType(s) ==
    /\ ShotTypeSelectorShown
    /\ s # shotType
    /\ shotType' = s
    /\ UNCHANGED <<ai, isDownloadMenuOpen, downloads, heroItem, inspirationPhoto, stylePrompt, generatedImage, isLoading,
                   error, itemCategory, isIdentifying, nextFile, classifications,
                   generations, uncaught>>

\* --------------------------------------------------- identifyItemCategory
ClassificationPending(c) == c.pc \in {"reading", "calling", "hung"}

\* fileToGenerativePart resolves: generateContent is called.
ClassifyFileRead(f) ==
    /\ classifications[f].pc = "reading"
    /\ classifications' = [classifications EXCEPT ![f].pc = "calling"]
    /\ UNCHANGED <<ai, isDownloadMenuOpen, downloads, heroItem, inspirationPhoto, stylePrompt, generatedImage, isLoading,
                   error, itemCategory, isIdentifying, shotType, nextFile, generations,
                   uncaught>>

\* The FileReader fails: onloadend runs with reader.result = null, the split
\* throws inside the callback, the promise is never resolved nor rejected.
ClassifyFileReadError(f) ==
    /\ classifications[f].pc = "reading"
    /\ classifications' = [classifications EXCEPT ![f].pc = "hung"]
    /\ uncaught' = TRUE
    /\ UNCHANGED <<ai, isDownloadMenuOpen, downloads, heroItem, inspirationPhoto, stylePrompt, generatedImage, isLoading,
                   error, itemCategory, isIdentifying, shotType, nextFile, generations>>

\* The service answers with text c: setItemCategory(c), finally.
ClassifyRespond(f, c) ==
    /\ classifications[f].pc = "calling"
    /\ classifications' = [classifications EXCEPT ![f].pc = "done"]
    /\ itemCategory' = c
    /\ isIdentifying' = FALSE
    /\ UNCHANGED <<ai, isDownloadMenuOpen, downloads, heroItem, inspirationPhoto, stylePrompt, generatedImage, isLoading,
                   error, shotType, nextFile, generations, uncaught>>

\* The service call throws: catch, finally.
ClassifyThrow(f) ==
    /\ classifications[f].pc = "calling"
    /\ classifications' = [classifications EXCEPT ![f].pc = "failed"]
    /\ itemCategory' = "Other"
    /\ isIdentifying' = FALSE
    /\ UNCHANGED <<ai, isDownloadMenuOpen, downloads, heroItem, inspirationPhoto, stylePrompt, generatedImage, isLoading,
                   error, shotType, nextFile, generations, uncaught>>


\* ----------------------------------------------------------- handleGenerate
\* A generation is one invocation of handleGenerate: the values its closure
\* captured at the click, the parts pushed so far, where it stands, and
\* what generateContent gave back.
NoResponse == <<"none">>
Thrown == <<"throw">>
Response(img) == <<"response", img>>

GenerationPending(g) == g.pc \notin {"done", "failed"}

\* Faulty variant: the button stays enabled while loading (C2 depends on it).
GenerateDisabled_IgnoresLoading == heroItem = NoFile

\* disabled attribute of the generate button
GenerateDisabled == heroItem = NoFile \/ isLoading

IsRefinement(g) == g.generatedImage # NoImage

\* width and height before getImageDimensions resolved
NoDimensions == <<0, 0>>

\* `${width}x${height}px` of the editing prompt
DimensionsText(dims) == ToString(dims[1]) \o "x" \o ToString(dims[2]) \o "px"

EditingPrompt(g) ==
    TextPart(<<ActiveSystemPrompt(g), "EDITING MODE: AESTHETIC TRANSFORMATION",
               DimensionsText(g.dims)>>)

defaultRefinePrompt == "Make a subtle improvement to the overall aesthetic."

DefaultPrompt(g) ==
    IF IsProductShot(g.shotType, g.itemCategory) THEN "A suitable product shot scene."
                                                 ELSE "A suitable fashion lookbook scene."

\* Faulty variant: a refinement falls back to the shot-type default (C13
\* depends on it).
BriefPart_ShotTypeDefaultOnly(g) ==
    TextPart(<<"INPUT: CREATIVE BRIEF",
               IF g.stylePrompt # "" THEN g.stylePrompt ELSE DefaultPrompt(g)>>)

\* `\n\n**INPUT: CREATIVE BRIEF**\n"${stylePrompt || default}"`
BriefPart(g) ==
    TextPart(<<"INPUT: CREATIVE BRIEF",
               IF g.stylePrompt # "" THEN g.stylePrompt
               ELSE IF IsRefinement(g) THEN defaultRefinePrompt ELSE DefaultPrompt(g)>>)

\* Parts pushed before the first fileToGenerativePart(heroItem).
HeadParts(g) ==
    IF IsRefinement(g)
      THEN <<EditingPrompt(g),
             TextPart(<<"CREATIVE DIRECTION FOR REFINEMENT">>),
             TextPart(<<"INPUT: HERO ITEM REFERENCE">>)>>
      ELSE <<TextPart(<<ActiveSystemPrompt(g)>>),
             TextPart(<<"INPUT: HERO ITEM PHOTO">>)>>

\* Faulty variant: the final directive is pushed before the brief (C12
\* depends on it).
ContinueAfterUploads_DirectiveBeforeBrief(g, parts) ==
    IF g.generatedImage # NoImage
      THEN [g EXCEPT !.parts = parts \o <<TextPart(<<"IMAGE TO BE EDITED">>),
                                          TextPart(<<"INPUT: IMAGE TO EDIT">>),
                                          BriefPart(g)>>,
                     !.pc = "readPrior"]
      ELSE [g EXCEPT !.parts = parts \o <<TextPart(<<"ACTION: Generate the final image now">>),
                                          BriefPart(g)>>,
                     !.pc = "call"]

\* The code after the last upload was read: the brief, then either the
\* wait for previous_lookbook.png (refinement) or the final directive and
\* the call of generateContent (fresh generation).
ContinueAfterUploads(g, parts) ==
    IF IsRefinement(g)
      THEN [g EXCEPT !.parts = parts \o <<BriefPart(g),
                                          TextPart(<<"IMAGE TO BE EDITED">>),
                                          TextPart(<<"INPUT: IMAGE TO EDIT">>)>>,
                     !.pc = "readPrior"]
      ELSE [g EXCEPT !.parts = parts \o <<BriefPart(g),
                                          TextPart(<<"ACTION: Generate the final image now">>)>>,
                     !.pc = "call"]

\* Faulty variant: the inspiration photo is never pushed (C1 depends on it).
ContinueAfterHero_SkipsInspiration(g, parts) == ContinueAfterUploads(g, parts)

\* The code after the hero item was read: the inspiration photo, if any.
ContinueAfterHero(g, parts) ==
    IF g.inspirationPhoto # NoFile
      THEN [g EXCEPT !.parts = parts \o <<TextPart(<<"INPUT: AESTHETIC INSPIRATION PHOTO">>)>>,
                     !.pc = "readInsp"]
      ELSE ContinueAfterUploads(g, parts)

\* Click on the generate button without a client.
HandleGenerateNoClient ==
    /\ ~GenerateDisabled
    /\ ClientMissing
    /\ error' = ApiKeyError
    /\ isLoading' = FALSE
    /\ UNCHANGED <<ai, isDownloadMenuOpen, downloads, heroItem, inspirationPhoto, stylePrompt, generatedImage,
                   itemCategory, isIdentifying, shotType, nextFile, classifications,
                   generations, uncaught>>

NewGeneration ==
    [pc |-> "start", heroItem |-> heroItem, inspirationPhoto |-> inspirationPhoto,
     stylePrompt |-> stylePrompt, generatedImage |-> generatedImage,
     shotType |-> shotType, itemCategory |-> itemCategory,
     dims |-> NoDimensions, parts |-> <<>>, response |-> NoResponse]

\* Click on the generate button: the synchronous head of handleGenerate up
\* to its first await (getImageDimensions, or the read of the hero item).
HandleGenerate ==
    /\ ~GenerateDisabled
    /\ ~ClientMissing
    /\ isLoading' = TRUE
    /\ error' = Null
    /\ LET g == NewGeneration
           started == IF IsRefinement(g)
                        THEN [g EXCEPT !.pc = "dims"]
                        ELSE [g EXCEPT !.pc = "readHero", !.parts = HeadParts(g)]
       IN generations' = Append(SelectSeq(generations, GenerationPending), started)
    /\ UNCHANGED <<ai, isDownloadMenuOpen, downloads, heroItem, inspirationPhoto, stylePrompt, generatedImage,
                   itemCategory, isIdentifying, shotType, nextFile, classifications,
                   uncaught>>

\* A settled invocation: its closure is released, what remains is how it
\* ended and what the service had answered.
Settled(pc, resp) ==
    [pc |-> pc, heroItem |-> NoFile, inspirationPhoto |-> NoFile, stylePrompt |-> "",
     generatedImage |-> NoImage, shotType |-> "model", itemCategory |-> Null,
     dims |-> NoDimensions, parts |-> <<>>, response |-> resp]

\* Faulty variant: the catch block also clears the stored result (C6 depends on it).
HandleGenerateCatch_ClearsResult(i, msg, resp) ==
    /\ error' = msg
    /\ isLoading' = FALSE
    /\ generatedImage' = NoImage
    /\ generations' = [generations EXCEPT ![i] = Settled("failed", resp)]
    /\ UNCHANGED <<ai, isDownloadMenuOpen, downloads, heroItem, inspirationPhoto, stylePrompt,
                   itemCategory, isIdentifying, shotType, nextFile, classifications,
                   uncaught>>

\* catch (err) { setError(...) } finally { setIsLoading(false) }
HandleGenerateCatch(i, msg, resp) ==
    /\ error' = msg
    /\ isLoading' = FALSE
    /\ generations' = [generations EXCEPT ![i] = Settled("failed", resp)]
    /\ UNCHANGED <<ai, isDownloadMenuOpen, downloads, heroItem, inspirationPhoto, stylePrompt, generatedImage,
                   itemCategory, isIdentifying, shotType, nextFile, classifications,
                   uncaught>>

\* An await resolves and the function runs on to its next await.
GenerationStep(i, g) ==
    /\ generations' = [generations EXCEPT ![i] = g]
    /\ UNCHANGED <<ai, isDownloadMenuOpen, downloads, heroItem, inspirationPhoto, stylePrompt, generatedImage, isLoading,
                   error, itemCategory, isIdentifying, shotType, nextFile,
                   classifications, uncaught>>

\* getImageDimensions resolves (img.onload).
GetImageDimensions(i) ==
    /\ i \in DOMAIN generations
    /\ generations[i].pc = "dims"
    /\ GenerationStep(i, [generations[i] EXCEPT
           !.pc = "fetch",
           !.dims = <<NaturalWidth(generations[i].generatedImage),
                      NaturalHeight(generations[i].generatedImage)>>])

\* Faulty variant: a failed read of the dimensions is swallowed and the
\* refinement goes on without them (C11 depends on it).
GetImageDimensionsError_GoesOn(i) ==
    /\ i \in DOMAIN generations
    /\ generations[i].pc = "dims"
    /\ GenerationStep(i, [generations[i] EXCEPT !.pc = "fetch"])

\* getImageDimensions rejects with the error Event of img.onerror.
GetImageDimensionsError(i) ==
    /\ i \in DOMAIN generations
    /\ generations[i].pc = "dims"
    /\ HandleGenerateCatch(i, UnknownError, NoResponse)

\* fetch(generatedImage) and response.blob() resolve.
FetchPrevious(i) ==
    /\ i \in DOMAIN generations
    /\ generations[i].pc = "fetch"
    /\ GenerationStep(i, [generations[i] EXCEPT !.pc = "readHero",
                                                 !.parts = HeadParts(generations[i])])

\* fetch(generatedImage) or response.blob() rejects with an Error.
FetchPreviousError(i) ==
    /\ i \in DOMAIN generations
    /\ generations[i].pc = "fetch"
    /\ HandleGenerateCatch(i, ServiceError, NoResponse)

\* fileToGenerativePart resolves for the hero item, the inspiration photo
\* or previous_lookbook.png.
GenerateFileRead(i) ==
    /\ i \in DOMAIN generations
    /\ LET g == generations[i] IN
       \/ /\ g.pc = "readHero"
          /\ GenerationStep(i, ContinueAfterHero(g,
                 Append(g.parts, ImagePart(FileData(g.heroItem)))))
       \/ /\ g.pc = "readInsp"
          /\ GenerationStep(i, ContinueAfterUploads(g,
                 Append(g.parts, ImagePart(FileData(g.inspirationPhoto)))))
       \/ /\ g.pc = "readPrior"
          /\ GenerationStep(i, [g EXCEPT
                 !.parts = g.parts \o
                     <<ImagePart(PreviousLookbookData(g.generatedImage)),
                       TextPart(<<"ACTION: Generate the refined image now">>)>>,
                 !.pc = "call"])

\* The FileReader fails inside fileToGenerativePart: the exception is thrown
\* in the onloadend callback and the awaited promise never settles.
GenerateFileReadError(i) ==
    /\ i \in DOMAIN generations
    /\ generations[i].pc \in {"readHero", "readInsp", "readPrior"}
    /\ generations' = [generations EXCEPT ![i].pc = "hung"]
    /\ uncaught' = TRUE
    /\ UNCHANGED <<ai, isDownloadMenuOpen, downloads, heroItem, inspirationPhoto, stylePrompt, generatedImage, isLoading,
                   error, itemCategory, isIdentifying, shotType, nextFile,
                   classifications>>

\* Faulty variant: a response is taken as a success whatever it holds (C10 depends on it).
HasImagePart_AlwaysTrue(img) == TRUE

\* response.candidates?.[0]?.content.parts.find(part => part.inlineData)
HasImagePart(img) == img # NoImage

\* generateContent resolves; img = NoImage stands for a response without an
\* image segment.
GenerateRespond(i, img) ==
    /\ i \in DOMAIN generations
    /\ generations[i].pc = "call"
    /\ IF HasImagePart(img)
         THEN /\ generatedImage' = img
              /\ isLoading' = FALSE
              /\ generations' = [generations EXCEPT ![i] = Settled("done", Response(img))]
              /\ UNCHANGED <<ai, isDownloadMenuOpen, downloads, heroItem, inspirationPhoto, stylePrompt, error,
                             itemCategory, isIdentifying, shotType, nextFile,
                             classifications, uncaught>>
         ELSE HandleGenerateCatch(i, NoImageError, Response(img))

\* generateContent rejects with an Error.
GenerateThrow(i) ==
    /\ i \in DOMAIN generations
    /\ generations[i].pc = "call"
    /\ HandleGenerateCatch(i, ServiceError, Thrown)

\* Faulty variant: the Start Over button is not disabled while loading (C14
\* depends on it).
HandleStartOver_WhileLoading ==
    /\ generatedImage # NoImage
    /\ generatedImage' = NoImage
    /\ error' = Null
    /\ UNCHANGED <<ai, isDownloadMenuOpen, downloads, heroItem, inspirationPhoto, stylePrompt, isLoading,
                   itemCategory, isIdentifying, shotType, nextFile, classifications,
                   generations, uncaught>>

\* Start Over button (rendered with the image, disabled while loading)
HandleStartOver ==
    /\ generatedImage # NoImage
    /\ ~isLoading
    /\ generatedImage' = NoImage
    /\ error' = Null
    /\ UNCHANGED <<ai, isDownloadMenuOpen, downloads, heroItem, inspirationPhoto, stylePrompt, isLoading,
                   itemCategory, isIdentifying, shotType, nextFile, classifications,
                   generations, uncaught>>

\* which branch of the output panel is rendered
OutputView ==
    IF generatedImage # NoImage THEN "image"
    ELSE IF error # Null /\ error # "" THEN "error"
    ELSE "placeholder"

\* ---------------------------------------------------------------- Next
Next ==
    \/ SelectHeroItem
    \/ RemoveHeroItem
    \/ SelectInspirationPhoto
    \/ RemoveInspirationPhoto
    \/ \E p \in StylePrompts : SetStylePrompt(p)
    \/ \E s \in {"model", "product"} : SetShotType(s)
    \/ \E f \in Files : ClassifyFileRead(f)
    \/ \E f \in Files : ClassifyFileReadError(f)
    \/ \E f \in Files, c \in ClassifierAnswers : ClassifyRespond(f, c)
    \/ \E f \in Files : ClassifyThrow(f)
    \/ HandleGenerateNoClient
    \/ HandleGenerate
    \/ \E i \in DOMAIN generations : GetImageDimensions(i)
    \/ \E i \in DOMAIN generations : GetImageDimensionsError(i)
    \/ \E i \in DOMAIN generations : FetchPrevious(i)
    \/ \E i \in DOMAIN generations : FetchPreviousError(i)
    \/ \E i \in DOMAIN generations : GenerateFileRead(i)
    \/ \E i \in DOMAIN generations : GenerateFileReadError(i)
    \/ \E i \in DOMAIN generations, img \in Images \cup {NoImage} : GenerateRespond(i, img)
    \/ \E i \in DOMAIN generations : GenerateThrow(i)
    \/ HandleStartOver

Spec == Init /\ [][Next]_vars

\* ------------------------------------------------------------ handleDownload
\* JavaScript numbers of the crop computation: IEEE 754 doubles with
\* round-to-nearest, ties-to-even arithmetic.
\*
\* A natural number of any size: its digits in base LimbBase, least
\* significant first, without leading zero digits; <<>> is 0.
LimbBase == 32768
LimbBits == 15
Big == Seq(Nat)

Nat2Big[n \in Nat] ==
    IF n = 0 THEN <<>> ELSE <<n % LimbBase>> \o Nat2Big[n \div LimbBase]

BigTrim[a \in Big] ==
    IF a = <<>> THEN <<>>
    ELSE IF a[Len(a)] = 0 THEN BigTrim[SubSeq(a, 1, Len(a) - 1)]
    ELSE a

Limb(a, k) == IF k \in DOMAIN a THEN a[k] ELSE 0

\* -1, 0 or 1 as a < b, a = b or a > b, comparing from digit k downwards
BigCmpFrom[a \in Big, b \in Big, k \in Nat] ==
    IF k = 0 THEN 0
    ELSE IF a[k] < b[k] THEN -1
    ELSE IF a[k] > b[k] THEN 1
    ELSE BigCmpFrom[a, b, k - 1]

BigCmp[a \in Big, b \in Big] ==
    IF Len(a) < Len(b) THEN -1
    ELSE IF Len(a) > Len(b) THEN 1
    ELSE BigCmpFrom[a, b, Len(a)]

\* the digits of a + b + carry from digit k upwards
BigAddFrom[a \in Big, b \in Big, k \in Nat, carry \in Nat] ==
    IF k > Len(a) /\ k > Len(b)
      THEN IF carry = 0 THEN <<>> ELSE <<carry>>
      ELSE LET s == Limb(a, k) + Limb(b, k) + carry
           IN <<s % LimbBase>> \o BigAddFrom[a, b, k + 1, s \div LimbBase]

BigAdd[a \in Big, b \in Big] == BigAddFrom[a, b, 1, 0]

\* the digits of a - b - borrow from digit k upwards, for a >= b
BigSubFrom[a \in Big, b \in Big, k \in Nat, borrow \in Nat] ==
    IF k > Len(a) THEN <<>>
    ELSE LET d == a[k] - Limb(b, k) - borrow
         IN IF d < 0
              THEN <<d + LimbBase>> \o BigSubFrom[a, b, k + 1, 1]
              ELSE <<d>> \o BigSubFrom[a, b, k + 1, 0]

BigSub[a \in Big, b \in Big] == BigTrim[BigSubFrom[a, b, 1, 0]]

\* a * m for 0 <= m <= LimbBase
BigMulSmallFrom[a \in Big, m \in Nat, k \in Nat, carry \in Nat] ==
    IF k > Len(a)
      THEN Nat2Big[carry]
      ELSE LET p == a[k] * m + carry
           IN <<p % LimbBase>> \o BigMulSmallFrom[a, m, k + 1, p \div LimbBase]

BigMulSmall[a \in Big, m \in Nat] == IF m = 0 THEN <<>> ELSE BigMulSmallFrom[a, m, 1, 0]

\* a * LimbBase^k
BigShiftLimbs[a \in Big, k \in Nat] == IF a = <<>> THEN <<>> ELSE [i \in 1..k |-> 0] \o a

BigMulFrom[a \in Big, b \in Big, k \in Nat] ==
    IF k > Len(b) THEN <<>>
    ELSE BigAdd[BigShiftLimbs[BigMulSmall[a, b[k]], k - 1], BigMulFrom[a, b, k + 1]]

BigMul[a \in Big, b \in Big] == BigMulFrom[a, b, 1]

Pow2[k \in Nat] == IF k = 0 THEN 1 ELSE 2 * Pow2[k - 1]

\* a * 2^k
BigShiftLeft[a \in Big, k \in Nat] ==
    BigShiftLimbs[BigMulSmall[a, Pow2[k % LimbBits]], k \div LimbBits]

BitLength[n \in Nat] == IF n = 0 THEN 0 ELSE 1 + BitLength[n \div 2]

BigBitLength[a \in Big] ==
    IF a = <<>> THEN 0 ELSE LimbBits * (Len(a) - 1) + BitLength[a[Len(a)]]

\* <<a \div m, a % m>> for 0 < m <= LimbBase: the digits k..1 of a are
\* brought down one by one onto the remainder r, above them the quotient
\* is q
BigDivSmallFrom[a \in Big, m \in Nat, k \in Nat, r \in Nat, q \in Big] ==
    IF k = 0 THEN <<BigTrim[q], r>>
    ELSE BigDivSmallFrom[a, m, k - 1, (r * LimbBase + a[k]) % m,
                         <<(r * LimbBase + a[k]) \div m>> \o q]

BigDivSmall[a \in Big, m \in Nat] == BigDivSmallFrom[a, m, Len(a), 0, <<>>]

\* a \div 2^k
BigShiftRight[a \in Big, k \in Nat] ==
    IF k \div LimbBits >= Len(a) THEN <<>>
    ELSE BigDivSmall[SubSeq(a, k \div LimbBits + 1, Len(a)), Pow2[k % LimbBits]][1]

\* the largest q with q * d <= r, for r < d * LimbBase, from an estimate
\* that is not below it
QuotientDigitFrom[r \in Big, d \in Big, q \in Nat] ==
    IF BigCmp[BigMulSmall[d, q], r] <= 0 THEN q ELSE QuotientDigitFrom[r, d, q - 1]

QuotientDigit[r \in Big, d \in Big] ==
    LET n == Len(d)
        estimate == (Limb(r, n + 1) * LimbBase + Limb(r, n)) \div d[n]
    IN QuotientDigitFrom[r, d, IF estimate > LimbBase - 1 THEN LimbBase - 1 ELSE estimate]

\* long division by d: the digits k..1 of a are brought down one by one
\* onto the remainder r, above them the quotient is q
BigDivFrom[a \in Big, d \in Big, k \in Nat, r \in Big, q \in Big] ==
    IF k = 0 THEN <<BigTrim[q], r>>
    ELSE LET r1 == BigTrim[<<a[k]>> \o r]
             digit == QuotientDigit[r1, d]
         IN BigDivFrom[a, d, k - 1, BigSub[r1, BigMulSmall[d, digit]], <<digit>> \o q]

\* the remainder of a division of operands scaled by 2^shift
Unscaled[qr \in Big \X Big, shift \in Nat] == <<qr[1], BigShiftRight[qr[2], shift]>>

\* <<a \div d, a % d>> for d # 0; for the long division a and d are first
\* scaled so that the leading digit of d is at least LimbBase / 2, which
\* keeps the estimates of QuotientDigit close
BigDivMod[a \in Big, d \in Big] ==
    IF Len(d) = 1
      THEN LET qr == BigDivSmall[a, d[1]] IN <<qr[1], Nat2Big[qr[2]]>>
      ELSE LET shift == LimbBits - BitLength[d[Len(d)]]
               sa == BigShiftLeft[a, shift]
           IN Unscaled[BigDivFrom[sa, BigShiftLeft[d, shift], Len(sa), <<>>, <<>>], shift]

\* A finite double: (-1)^neg * n * 2^e  with n odd, or n = <<>> for zero.
Doubles == [neg : BOOLEAN, n : Big, e : Int]
Zero == [neg |-> FALSE, n |-> <<>>, e |-> 0]

\* the number of zero bits at the low end of m > 0
ZeroBits[m \in Nat] == IF m % 2 = 1 THEN 0 ELSE 1 + ZeroBits[m \div 2]

Double[neg \in BOOLEAN, n \in Big, e \in Int] ==
    IF n = <<>> THEN Zero
    ELSE IF n[1] = 0 THEN Double[neg, Tail(n), e + LimbBits]
    ELSE [neg |-> neg, n |-> BigShiftRight[n, ZeroBits[n[1]]], e |-> e + ZeroBits[n[1]]]

\* the double of an integer below 2^31 (exact)
Number[k \in Int] == IF k < 0 THEN Double[TRUE, Nat2Big[-k], 0] ELSE Double[FALSE, Nat2Big[k], 0]

MantissaBits == 53

\* Round q * 2^e plus the bits dropped below it to a double, ties to even:
\* half is -1, 0 or 1 as the bits dropped are below, at or above one half of
\* the last place of q.
RoundUp[neg \in BOOLEAN, q \in Big, e \in Int, half \in Int, sticky \in BOOLEAN] ==
    IF half > 0 \/ (half = 0 /\ (sticky \/ q[1] % 2 = 1))
      THEN Double[neg, BigAdd[q, <<1>>], e]
      ELSE Double[neg, q, e]

\* q are the highest MantissaBits bits of n, k the number of bits dropped
RoundKept[neg \in BOOLEAN, n \in Big, q \in Big, e \in Int, k \in Nat, sticky \in BOOLEAN] ==
    RoundUp[neg, q, e + k,
            BigCmp[BigSub[n, BigShiftLeft[q, k]], BigShiftLeft[<<1>>, k - 1]], sticky]

\* Round (n + f) * 2^e, 0 <= f < 1 and f # 0 iff sticky, to the nearest
\* double, ties to even.
RoundToDouble[neg \in BOOLEAN, n \in Big, e \in Int, sticky \in BOOLEAN] ==
    LET k == BigBitLength[n] - MantissaBits
    IN IF k <= 0
         THEN Double[neg, n, e]     \* callers pass sticky only with k > 0
         ELSE RoundKept[neg, n, BigShiftRight[n, k], e, k, sticky]

\* x * y
Times[x \in Doubles, y \in Doubles] ==
    IF x.n = <<>> \/ y.n = <<>> THEN Zero
    ELSE RoundToDouble[x.neg # y.neg, BigMul[x.n, y.n], x.e + y.e, FALSE]

\* the double nearest to (qr[1] + f) * 2^e, where f # 0 iff the remainder
\* qr[2] of the division is not zero
RoundQuotient[neg \in BOOLEAN, qr \in Big \X Big, e \in Int] ==
    RoundToDouble[neg, qr[1], e, qr[2] # <<>>]

\* x / y for y # 0: x is scaled by 2^s so that the integer quotient has more
\* bits than a double keeps
Over[x \in Doubles, y \in Doubles] ==
    IF x.n = <<>> THEN Zero
    ELSE LET bits == MantissaBits + 2 + BigBitLength[y.n] - BigBitLength[x.n]
             s == IF bits > 0 THEN bits ELSE 0
         IN RoundQuotient[x.neg # y.neg, BigDivMod[BigShiftLeft[x.n, s], y.n], x.e - s - y.e]

\* the exact value of x - y, as <<neg, n, e>>: a and b are the magnitudes of
\* x and y in units of 2^e
SignedDifference[xneg \in BOOLEAN, a \in Big, yneg \in BOOLEAN, b \in Big, e \in Int] ==
    IF xneg # yneg THEN <<xneg, BigAdd[a, b], e>>
    ELSE IF BigCmp[a, b] >= 0 THEN <<xneg, BigSub[a, b], e>>
    ELSE <<~xneg, BigSub[b, a], e>>

Difference[x \in Doubles, y \in Doubles] ==
    LET e == IF x.e < y.e THEN x.e ELSE y.e
    IN SignedDifference[x.neg, BigShiftLeft[x.n, x.e - e], y.neg, BigShiftLeft[y.n, y.e - e], e]

\* the double nearest to an exact difference
Rounded[d \in BOOLEAN \X Big \X Int] == RoundToDouble[d[1], d[2], d[3], FALSE]

\* x - y
Minus[x \in Doubles, y \in Doubles] == Rounded[Difference[x, y]]

\* x < y
IsNegative[d \in BOOLEAN \X Big \X Int] == d[1] /\ d[2] # <<>>
LessThan[x \in Doubles, y \in Doubles] == IsNegative[Difference[x, y]]

Aspects == {"1:1", "9:16", "16:9"}

\* Faulty variant: the portrait and landscape targets are exchanged (C17
\* depends on it).
TargetAspect_Exchanged(aspect) ==
    IF aspect = "16:9" THEN Over[Number[9], Number[16]]
    ELSE IF aspect = "9:16" THEN Over[Number[16], Number[9]]
    ELSE Number[1]

\* if (aspect === '16:9') targetAspect = 16 / 9; else if ... else targetAspect = 1
TargetAspect(aspect) ==
    IF aspect = "16:9" THEN Over[Number[16], Number[9]]
    ELSE IF aspect = "9:16" THEN Over[Number[9], Number[16]]
    ELSE Number[1]

\* Faulty variant: the narrowed rectangle starts at the left edge (C15
\* depends on it).
CropWidth_LeftAligned(W, H, targetAspect) ==
    [sx |-> Number[0], sy |-> Number[0],
     sWidth |-> Times[Number[H], targetAspect], sHeight |-> Number[H]]

\* sourceAspect > targetAspect: sWidth = sourceHeight * targetAspect,
\* sx = (sourceWidth - sWidth) / 2
CropWidth(W, H, targetAspect) ==
    LET sWidth == Times[Number[H], targetAspect]
    IN [sx |-> Over[Minus[Number[W], sWidth], Number[2]], sy |-> Number[0],
        sWidth |-> sWidth, sHeight |-> Number[H]]

\* Faulty variant: the lowered height is a product, not a quotient (C21
\* depends on it).
CropHeight_Multiplies(W, H, targetAspect) ==
    LET sHeight == Times[Number[W], targetAspect]
    IN [sx |-> Number[0], sy |-> Over[Minus[Number[H], sHeight], Number[2]],
        sWidth |-> Number[W], sHeight |-> sHeight]

\* sourceAspect < targetAspect: sHeight = sourceWidth / targetAspect,
\* sy = (sourceHeight - sHeight) / 2
CropHeight(W, H, targetAspect) ==
    LET sHeight == Over[Number[W], targetAspect]
    IN [sx |-> Number[0], sy |-> Over[Minus[Number[H], sHeight], Number[2]],
        sWidth |-> Number[W], sHeight |-> sHeight]

\* Faulty variant: the bias is applied for every target (C16 depends on it).
UpwardBias_AnyTarget(aspect, sourceAspect, targetAspect) ==
    LessThan[sourceAspect, targetAspect]

\* if (aspect === '16:9' && sourceAspect < targetAspect)
UpwardBias(aspect, sourceAspect, targetAspect) ==
    aspect = "16:9" /\ LessThan[sourceAspect, targetAspect]

\* the 0.3 of sy = (sourceHeight - sHeight) * 0.3
BiasFactor == Over[Number[3], Number[10]]

\* The source rectangle that onload hands to drawImage.
CropRectangle(W, H, aspect) ==
    LET sourceAspect == Over[Number[W], Number[H]]
        targetAspect == TargetAspect(aspect)
        centred == IF LessThan[targetAspect, sourceAspect]
                     THEN CropWidth(W, H, targetAspect)
                   ELSE IF LessThan[sourceAspect, targetAspect]
                     THEN CropHeight(W, H, targetAspect)
                   ELSE [sx |-> Number[0], sy |-> Number[0],
                         sWidth |-> Number[W], sHeight |-> Number[H]]
    IN IF UpwardBias(aspect, sourceAspect, targetAspect)
         THEN [centred EXCEPT
                  !.sy = Times[Minus[Number[H], centred.sHeight], BiasFactor]]
         ELSE centred

\* link.download = `lookbook-${aspect.replace(':', 'x')}.png`
DownloadName(aspect) ==
    IF aspect = "16:9" THEN "lookbook-16x9.png"
    ELSE IF aspect = "9:16" THEN "lookbook-9x16.png"
    ELSE "lookbook-1x1.png"

NoExport == [name |-> Null]
DownloadError == "Could not download image due to an error loading it."

DownloadPending(d) == d.pc = "loading"
PendingDownloads == {i \in DOMAIN downloads : DownloadPending(downloads[i])}

\* Download button: onClick={() => !isLoading && setDownloadMenuOpen(!isDownloadMenuOpen)}
ToggleDownloadMenu ==
    /\ generatedImage # NoImage
    /\ ~isLoading
    /\ isDownloadMenuOpen' = ~isDownloadMenuOpen
    /\ UNCHANGED <<ai, downloads, heroItem, inspirationPhoto, stylePrompt,
                   generatedImage, isLoading, error, itemCategory, isIdentifying,
                   shotType, nextFile, classifications, generations, uncaught>>

\* A button of the download menu: the image starts to load from the stored
\* result and the menu closes.
HandleDownload(aspect) ==
    /\ generatedImage # NoImage
    /\ isDownloadMenuOpen
    /\ downloads' = Append(SelectSeq(downloads, DownloadPending),
                           [pc |-> "loading", aspect |-> aspect,
                            src |-> generatedImage, file |-> NoExport])
    /\ isDownloadMenuOpen' = FALSE
    /\ UNCHANGED <<ai, heroItem, inspirationPhoto, stylePrompt, generatedImage,
                   isLoading, error, itemCategory, isIdentifying, shotType, nextFile,
                   classifications, generations, uncaught>>

\* image.onload with a 2d context: the crop is drawn and the link clicked.
DownloadLoaded(i) ==
    /\ downloads[i].pc = "loading"
    /\ LET d == downloads[i]
           crop == CropRectangle(NaturalWidth(d.src), NaturalHeight(d.src), d.aspect)
       IN downloads' = [downloads EXCEPT
              ![i].pc = "saved",
              ![i].file = [name |-> DownloadName(d.aspect), crop |-> crop]]
    /\ UNCHANGED <<ai, isDownloadMenuOpen, heroItem, inspirationPhoto, stylePrompt,
                   generatedImage, isLoading, error, itemCategory, isIdentifying,
                   shotType, nextFile, classifications, generations, uncaught>>

\* image.onload without a 2d context: if (!ctx) return
DownloadNoContext(i) ==
    /\ downloads[i].pc = "loading"
    /\ downloads' = [downloads EXCEPT ![i].pc = "noContext"]
    /\ UNCHANGED <<ai, isDownloadMenuOpen, heroItem, inspirationPhoto, stylePrompt,
                   generatedImage, isLoading, error, itemCategory, isIdentifying,
                   shotType, nextFile, classifications, generations, uncaught>>

\* image.onerror
DownloadLoadError(i) ==
    /\ downloads[i].pc = "loading"
    /\ downloads' = [downloads EXCEPT ![i].pc = "failed"]
    /\ error' = DownloadError
    /\ UNCHANGED <<ai, isDownloadMenuOpen, heroItem, inspirationPhoto, stylePrompt,
                   generatedImage, isLoading, itemCategory, isIdentifying,
                   shotType, nextFile, classifications, generations, uncaught>>

\* The images a successful generation can have stored.
ExportImages == GridImages \cup {Landscape1920x1080, Portrait1080x1920}

\* The studio after a first successful generation for an identified hero item.
ExportInit ==
    /\ ai = TRUE
    /\ heroItem = 1
    /\ inspirationPhoto = NoFile
    /\ stylePrompt = ""
    /\ generatedImage \in ExportImages
    /\ isLoading = FALSE
    /\ error = Null
    /\ itemCategory = "Dress"
    /\ isIdentifying = FALSE
    /\ shotType = "model"
    /\ nextFile = 2
    /\ classifications = [f \in Files |-> IF f = 1 THEN [pc |-> "done"] ELSE NoClassification]
    /\ generations = <<Settled("done", Response(generatedImage))>>
    /\ uncaught = FALSE
    /\ isDownloadMenuOpen = FALSE
    /\ downloads = <<>>

ExportNext ==
    \/ ToggleDownloadMenu
    \/ \E aspect \in Aspects : PendingDownloads = {} /\ HandleDownload(aspect)
    \/ \E i \in DOMAIN downloads : DownloadLoaded(i)
    \/ \E i \in DOMAIN downloads : DownloadNoContext(i)
    \/ \E i \in DOMAIN downloads : DownloadLoadError(i)
    \/ HandleStartOver

\* Export of a stored result, one file at a time: a format is picked when
\* the previous image load has ended.
SpecExport == ExportInit /\ [][ExportNext]_vars

RefineExportNext ==
    \/ ToggleDownloadMenu
    \/ \E aspect \in Aspects :
          Cardinality(PendingDownloads) < MaxExports /\ HandleDownload(aspect)
    \/ \E i \in DOMAIN downloads : DownloadLoaded(i)
    \/ \E i \in DOMAIN downloads : DownloadNoContext(i)
    \/ \E i \in DOMAIN downloads : DownloadLoadError(i)
    \/ HandleStartOver
    \/ HandleGenerate
    \/ \E i \in DOMAIN generations : GetImageDimensions(i)
    \/ \E i \in DOMAIN generations : GetImageDimensionsError(i)
    \/ \E i \in DOMAIN generations : FetchPrevious(i)
    \/ \E i \in DOMAIN generations : FetchPreviousError(i)
    \/ \E i \in DOMAIN generations : GenerateFileRead(i)
    \/ \E i \in DOMAIN generations : GenerateFileReadError(i)
    \/ \E i \in DOMAIN generations, img \in Images \cup {NoImage} : GenerateRespond(i, img)
    \/ \E i \in DOMAIN generations : GenerateThrow(i)

\* Exports of a stored result, up to MaxExports image loads at once, while
\* refinements and new generations go on.
SpecRefineExport == ExportInit /\ [][RefineExportNext]_vars


\* =================================================================== claims
Pending == {i \in DOMAIN generations : GenerationPending(generations[i])}

\* image segments of a request that carry payload d
SegmentsWith(parts, d) ==
    {k \in DOMAIN parts : parts[k].kind = "inlineData" /\ parts[k].data = d}

ImageSegments(parts) == {k \in DOMAIN parts : parts[k].kind = "inlineData"}

PriorSegments(parts) ==
    {k \in DOMAIN parts : parts[k].kind = "inlineData" /\ parts[k].data[1] = "previous_lookbook.png"}

\* C1: every request submitted to the generation service holds exactly one
\* hero-item image segment, an inspiration-image segment iff an inspiration
\* photo was supplied at the click, and a prior-result image segment iff a
\* generated result was stored at the click; it holds no other image segment.
C1_RequestSegments ==
    \A i \in DOMAIN generations :
        generations[i].pc = "call" =>
            LET g == generations[i]
                hero == SegmentsWith(g.parts, FileData(g.heroItem))
                insp == IF g.inspirationPhoto = NoFile THEN {}
                        ELSE SegmentsWith(g.parts, FileData(g.inspirationPhoto))
                prior == PriorSegments(g.parts)
            IN /\ Cardinality(hero) = 1
               /\ Cardinality(insp) = (IF g.inspirationPhoto # NoFile THEN 1 ELSE 0)
               /\ Cardinality(prior) = (IF g.generatedImage # NoImage THEN 1 ELSE 0)
               /\ \A k \in prior : g.parts[k].data = PreviousLookbookData(g.generatedImage)
               /\ ImageSegments(g.parts) = hero \cup insp \cup prior

\* C1 witness: a refinement request with an inspiration photo is in flight.
C1_Witness ==
    \E i \in DOMAIN generations :
        /\ generations[i].pc = "call"
        /\ generations[i].inspirationPhoto # NoFile
        /\ generations[i].generatedImage # NoImage
        /\ Cardinality(ImageSegments(generations[i].parts)) = 3

\* C2: at most one invocation of handleGenerate is unsettled, and isLoading
\* (which disables the generate button) is true exactly while one is.
C2_AtMostOneInFlight ==
    /\ Cardinality(Pending) <= 1
    /\ isLoading <=> Pending # {}

\* C2 witness: a second generation is in flight after the first one settled
\* with a result.
C2_Witness ==
    \E i \in Pending : generations[i].generatedImage # NoImage /\ isLoading

\* C3: a classification that settles for a hero item that is no longer the
\* current one (replaced or removed meanwhile) is discarded: it does not
\* write itemCategory.
C3_LatestUploadWins ==
    [][\A f \in Files :
        (/\ classifications[f].pc = "calling"
         /\ classifications'[f].pc \in {"done", "failed"}
         /\ f # heroItem)
        => itemCategory' = itemCategory]_vars

\* C4: without a client nothing is ever started or stored (no loading, no
\* identifying, no invocation, no call, no result), and every attempt to
\* classify or to generate leaves the configuration error as the error.
C4_NoClientFailsClosed ==
    /\ [](~ai =>
            /\ ~isLoading /\ ~isIdentifying /\ generatedImage = NoImage
            /\ generations = <<>>
            /\ \A f \in Files : classifications[f].pc = "none"
            /\ error \in {Null, ApiKeyError})
    /\ [][(~ai /\ (SelectHeroItem \/ HandleGenerateNoClient \/ HandleGenerate))
            => error' = ApiKeyError]_vars

\* C4 witness: without a client a hero item was picked and the configuration
\* error is shown.
C4_Witness ==
    ~ai /\ heroItem # NoFile /\ error = ApiKeyError /\ OutputView = "error"

\* C5: after a generation settled as a failure the output area shows the
\* error view.
C5_FailureShowsErrorView ==
    \A i \in DOMAIN generations :
        generations[i].pc = "failed" => OutputView = "error"

\* C6: a generation that settles as a failure leaves generatedImage as it
\* was when the generation was started, and generatedImage is set to an
\* image only by a response that carries one.
C6_FailureKeepsResult ==
    /\ [][\A i \in DOMAIN generations :
            (/\ GenerationPending(generations[i])
             /\ i \in DOMAIN generations'
             /\ generations'[i].pc = "failed")
            => (generatedImage' = generatedImage
                /\ generatedImage = generations[i].generatedImage)]_vars
    /\ [][generatedImage' \notin {generatedImage, NoImage} =>
            \E i \in DOMAIN generations :
                /\ generations[i].pc = "call"
                /\ i \in DOMAIN generations'
                /\ generations'[i].response = Response(generatedImage')]_vars

\* C6 witness: a refinement has failed and the stored result is still there.
C6_Witness ==
    \E i \in DOMAIN generations :
        generations[i].pc = "failed" /\ generatedImage # NoImage /\ ~isLoading

\* C7: a classification that fails stores exactly 'Other', leaves the error
\* alone and ends with isIdentifying false.
C7_ClassificationFailureIsOther ==
    [][\A f \in Files :
        (/\ classifications[f].pc \in {"reading", "calling"}
         /\ classifications'[f].pc \in {"failed", "hung"})
        => (itemCategory' = "Other" /\ ~isIdentifying' /\ error' = error)]_vars

\* C8: no failure escapes uncaught and no generation or classification is
\* left waiting on a promise that never settles.
C8_NoFailureEscapes ==
    /\ ~uncaught
    /\ \A i \in DOMAIN generations : generations[i].pc # "hung"
    /\ \A f \in Files : classifications[f].pc # "hung"

\* the instruction template a request starts with
TemplateOf(g) == g.parts[1].text[1]

UsesProductDefaultBrief(g) ==
    \E k \in DOMAIN g.parts :
        /\ g.parts[k].kind = "text"
        /\ g.parts[k].text = <<"INPUT: CREATIVE BRIEF", "A suitable product shot scene.">>

\* C9: a request starts with the product-shot template exactly when the shot
\* type at the click was Product and the category at the click was an
\* accessory, and with the model-shot template otherwise; the product-shot
\* default brief appears only under the product-shot template; and Product
\* can be selected only while the category is an accessory.
C9_ProductOnlyForAccessories ==
    /\ [](\A i \in DOMAIN generations :
            generations[i].parts # <<>> =>
                LET g == generations[i] IN
                /\ TemplateOf(g) \in {PRODUCT_SHOT_SYSTEM_PROMPT, MODEL_SHOT_SYSTEM_PROMPT}
                /\ TemplateOf(g) = PRODUCT_SHOT_SYSTEM_PROMPT <=>
                       (g.shotType = "product" /\ g.itemCategory \in accessoryCategories)
                /\ UsesProductDefaultBrief(g) =>
                       (g.shotType = "product" /\ g.itemCategory \in accessoryCategories))
    /\ [][(shotType' = "product" /\ shotType # "product") =>
            itemCategory \in accessoryCategories]_vars

\* C9 witness: a request built from the product-shot template is in flight.
C9_Witness ==
    \E i \in DOMAIN generations :
        /\ generations[i].pc = "call"
        /\ TemplateOf(generations[i]) = PRODUCT_SHOT_SYSTEM_PROMPT

\* C10: when generateContent answers without an image segment, the
\* generation settles as a failure with a non-null error, generatedImage is
\* left alone and isLoading is false again.
C10_NoImageIsFailure ==
    [][\A i \in DOMAIN generations :
        (/\ generations[i].pc = "call"
         /\ i \in DOMAIN generations'
         /\ generations'[i].response = Response(NoImage))
        => (/\ generations'[i].pc = "failed"
            /\ error' # Null
            /\ generatedImage' = generatedImage
            /\ ~isLoading')]_vars

\* C10 witness: a generation has settled on a response without an image.
C10_Witness ==
    \E i \in DOMAIN generations :
        /\ generations[i].pc = "failed"
        /\ generations[i].response = Response(NoImage)
        /\ error = NoImageError
        /\ ~isLoading


\* C11: every refinement request submitted to the service embeds the
\* dimensions read back from the stored result, and a refinement whose
\* read of the dimensions fails settles as a failure with an error and
\* without having called the service.
C11_NoRequestWithoutDimensions ==
    /\ [](\A i \in DOMAIN generations :
            (generations[i].pc = "call" /\ generations[i].generatedImage # NoImage) =>
                LET g == generations[i] IN
                /\ g.dims = <<NaturalWidth(g.generatedImage), NaturalHeight(g.generatedImage)>>
                /\ g.parts[1].text[3] = DimensionsText(g.dims))
    /\ [][\A i \in DOMAIN generations :
            (/\ generations[i].pc = "dims"
             /\ i \in DOMAIN generations'
             /\ generations'[i].pc \notin {"dims", "fetch"})
            => (/\ generations'[i].pc = "failed"
                /\ generations'[i].response = NoResponse
                /\ error' # Null
                /\ ~isLoading')]_vars

\* C11 witness: a refinement failed on the read of the dimensions (the only
\* failure that reports the unknown-error message) and called nothing.
C11_Witness ==
    \E i \in DOMAIN generations :
        /\ generations[i].pc = "failed"
        /\ generations[i].response = NoResponse
        /\ error = UnknownError
        /\ generatedImage # NoImage


BriefSegments(parts) ==
    {k \in DOMAIN parts : parts[k].kind = "text" /\ parts[k].text[1] = "INPUT: CREATIVE BRIEF"}

UploadSegments(parts, f) ==
    IF f = NoFile THEN {} ELSE SegmentsWith(parts, FileData(f))

\* every position in A lies before every position in B
Before(A, B) == \A a \in A, b \in B : a < b

\* C12: in every submitted request the instruction text is the first
\* segment, the hero image comes before the inspiration image (if any),
\* that before the single creative-brief text, that before the prior-result
\* image (refinement only), and the action directive is the last segment.
C12_SegmentOrder ==
    \A i \in DOMAIN generations :
        generations[i].pc = "call" =>
            LET g == generations[i]
                parts == g.parts
                n == Len(parts)
                hero == UploadSegments(parts, g.heroItem)
                insp == UploadSegments(parts, g.inspirationPhoto)
                brief == BriefSegments(parts)
                prior == PriorSegments(parts)
            IN /\ parts[1].kind = "text"
               /\ parts[1].text[1] \in {MODEL_SHOT_SYSTEM_PROMPT, PRODUCT_SHOT_SYSTEM_PROMPT}
               /\ parts[n].kind = "text"
               /\ parts[n].text \in {<<"ACTION: Generate the final image now">>,
                                     <<"ACTION: Generate the refined image now">>}
               /\ Cardinality(brief) = 1
               /\ hero # {}
               /\ Before({1}, hero)
               /\ Before(hero, insp) /\ Before(hero, brief)
               /\ Before(insp, brief)
               /\ Before(brief, prior)
               /\ Before(brief, {n}) /\ Before(prior, {n})

\* C12 witness: the longest request, a refinement with an inspiration photo
\* (eleven segments), is in flight.
C12_Witness ==
    \E i \in DOMAIN generations :
        /\ generations[i].pc = "call"
        /\ Len(generations[i].parts) = 11
        /\ PriorSegments(generations[i].parts) = {10}
        /\ BriefSegments(generations[i].parts) = {7}


\* C13: the creative-brief segment of a submitted request carries the brief
\* as typed when it is not empty; for an empty brief it carries, in a fresh
\* generation, the product-shot default under the product template and the
\* fashion-lookbook default otherwise, and in a refinement the
\* subtle-improvement default whatever the shot type.
C13_BriefOrDefault ==
    \A i \in DOMAIN generations :
        generations[i].pc = "call" =>
            LET g == generations[i] IN
            \A k \in BriefSegments(g.parts) :
                g.parts[k].text =
                    <<"INPUT: CREATIVE BRIEF",
                      IF g.stylePrompt # "" THEN g.stylePrompt
                      ELSE IF g.generatedImage # NoImage
                        THEN "Make a subtle improvement to the overall aesthetic."
                      ELSE IF TemplateOf(g) = PRODUCT_SHOT_SYSTEM_PROMPT
                        THEN "A suitable product shot scene."
                      ELSE "A suitable fashion lookbook scene.">>

\* C13 witness: a product-shot refinement with an empty brief is in flight
\* and carries the subtle-improvement default.
C13_Witness ==
    \E i \in DOMAIN generations :
        /\ generations[i].pc = "call"
        /\ generations[i].stylePrompt = ""
        /\ generations[i].generatedImage # NoImage
        /\ TemplateOf(generations[i]) = PRODUCT_SHOT_SYSTEM_PROMPT
        /\ \E k \in BriefSegments(generations[i].parts) :
              generations[i].parts[k].text[2] =
                  "Make a subtle improvement to the overall aesthetic."


\* C14: the stored result is discarded only while no generation is in
\* flight, and that step also clears the error; a generation in flight was
\* started from the result that is stored now, so after a Start Over the next
\* generation is a fresh one without a prior-result segment, and an image
\* that appears where none was stored comes from a generation started after
\* the result was discarded.
C14_StartOverDiscards ==
    /\ [][(generatedImage # NoImage /\ generatedImage' = NoImage) =>
            (~isLoading /\ Pending = {} /\ error' = Null /\ generations' = generations)]_vars
    /\ [](\A i \in Pending :
            /\ generations[i].generatedImage = generatedImage
            /\ generatedImage = NoImage => PriorSegments(generations[i].parts) = {})
    /\ [][(generatedImage = NoImage /\ generatedImage' # NoImage) =>
            \E i \in Pending :
                /\ generations[i].pc = "call"
                /\ generations[i].generatedImage = NoImage
                /\ PriorSegments(generations[i].parts) = {}]_vars

\* C14 witness: the last generation delivered an image and Start Over has
\* discarded it: nothing is stored, no error is set, nothing is in flight.
C14_Witness ==
    /\ generatedImage = NoImage
    /\ error = Null
    /\ ~isLoading
    /\ \E i \in DOMAIN generations :
          /\ generations[i].pc = "done"
          /\ generations[i].response # Response(NoImage)

\* The target ratio as the specification states it.
StatedTarget(aspect) ==
    CASE aspect = "1:1" -> Number[1]
      [] aspect = "9:16" -> Over[Number[9], Number[16]]
      [] aspect = "16:9" -> Over[Number[16], Number[9]]

Saved == {i \in DOMAIN downloads : downloads[i].pc = "saved"}

\* C15: for every source size W x H and every target t, an exported file is
\* cut from the stated rectangle: when W/H > t the full height is kept,
\* sWidth = H*t, sx = (W - sWidth)/2 and sy = 0; when W/H < t and t is not
\* 16:9 the full width is kept, sHeight = W/t, sy = (H - sHeight)/2 and
\* sx = 0; 1920x1080 exported as 1:1 is cut at sx = 420, sy = 0, 1080 x 1080.
C15_CropCases ==
    \A i \in Saved :
        LET W == NaturalWidth(downloads[i].src)
            H == NaturalHeight(downloads[i].src)
            a == downloads[i].aspect
            t == StatedTarget(a)
            c == downloads[i].file.crop
        IN /\ LessThan[t, Over[Number[W], Number[H]]] =>
                /\ (c.sHeight = Number[H])
                /\ (c.sWidth = Times[Number[H], t])
                /\ (c.sx = Over[Minus[Number[W], c.sWidth], Number[2]])
                /\ (c.sy = Number[0])
           /\ (LessThan[Over[Number[W], Number[H]], t] /\ a # "16:9") =>
                /\ (c.sWidth = Number[W])
                /\ (c.sHeight = Over[Number[W], t])
                /\ (c.sy = Over[Minus[Number[H], c.sHeight], Number[2]])
                /\ (c.sx = Number[0])
           /\ (W = 1920 /\ H = 1080 /\ a = "1:1") =>
                /\ (c.sWidth = Number[1080])
                /\ (c.sx = Number[420])
                /\ (c.sy = Number[0])
                /\ (c.sHeight = Number[1080])

C15_Witness ==
    \E i \in Saved :
        /\ downloads[i].src = Landscape1920x1080
        /\ downloads[i].aspect = "1:1"
        /\ (downloads[i].file.crop.sx = Number[420])

\* sy of a vertically centred crop, and of one moved up by the 0.3 factor.
CentredSy(H, c) == Over[Minus[Number[H], c.sHeight], Number[2]]
BiasedSy(H, c) == Times[Minus[Number[H], c.sHeight], Over[Number[3], Number[10]]]

C17_EqualAspectNoCrop ==
    \A i \in Saved :
        LET W == NaturalWidth(downloads[i].src)
            H == NaturalHeight(downloads[i].src)
            t == StatedTarget(downloads[i].aspect)
            c == downloads[i].file.crop
        IN Over[Number[W], Number[H]] = t =>
              /\ (c.sx = Number[0])
              /\ (c.sy = Number[0])
              /\ (c.sWidth = Number[W])
              /\ (c.sHeight = Number[H])

C17_Witness ==
    \E i \in Saved :
        /\ downloads[i].aspect = "16:9"
        /\ NaturalWidth(downloads[i].src) * 9 = NaturalHeight(downloads[i].src) * 16
        /\ (downloads[i].file.crop.sy = Number[0])
        /\ (downloads[i].file.crop.sHeight = Number[NaturalHeight(downloads[i].src)])

\* C18: when the image of an export cannot be loaded, the failure is shown
\* to the user as an error, generatedImage and isLoading stay as they were,
\* and no file is produced.
C18_ExportFailureSurfaced ==
    [][\A i \in DOMAIN downloads :
        (/\ downloads[i].pc = "loading"
         /\ i \in DOMAIN downloads'
         /\ downloads'[i].pc = "failed")
        => (/\ error' = DownloadError
            /\ OutputView' = "error"
            /\ generatedImage' = generatedImage
            /\ isLoading' = isLoading
            /\ downloads'[i].file = NoExport)]_vars

\* C19: in every reachable state a shot type of 'product' goes with an
\* itemCategory that is one of the accessory categories.
C19_ProductImpliesAccessory ==
    shotType = "product" => itemCategory \in accessoryCategories

\* C20: with the client available, isIdentifying is true exactly while at
\* least one classification is pending.
C20_IdentifyingIffPending ==
    ai => (isIdentifying <=> \E f \in Files : ClassificationPending(classifications[f]))

\* Exact values (no rounding): a product, a difference, an absolute value,
\* and x * 2^k.
ExactProduct(x, y) == [neg |-> x.neg # y.neg, n |-> BigMul[x.n, y.n], e |-> x.e + y.e]
ExactDifference(x, y) ==
    LET d == Difference[x, y] IN [neg |-> d[1], n |-> d[2], e |-> d[3]]
Magnitude(x) == [x EXCEPT !.neg = FALSE]
Scaled(x, k) == [x EXCEPT !.e = x.e + k]
AtMost(x, y) == ~LessThan[y, x]

\* The rectangle c lies inside a W x H source and keeps one full dimension.
InsideSource(W, H, c) ==
    /\ AtMost(Number[0], c.sx)
    /\ AtMost(Number[0], c.sy)
    /\ AtMost(c.sx, ExactDifference(Number[W], c.sWidth))
    /\ AtMost(c.sy, ExactDifference(Number[H], c.sHeight))
    /\ (c.sWidth = Number[W] \/ c.sHeight = Number[H])

\* the target ratio as numerator and denominator
StatedRatio(aspect) ==
    CASE aspect = "1:1" -> <<1, 1>>
      [] aspect = "9:16" -> <<9, 16>>
      [] aspect = "16:9" -> <<16, 9>>

\* C21 as stated: for every source size W x H and every target, the crop
\* rectangle of an exported file lies inside the source (0 <= sx, 0 <= sy,
\* sx + sWidth <= W, sy + sHeight <= H), keeps one full source dimension,
\* and has exactly the target aspect ratio: sWidth / sHeight = target.
C21_CropInsideExactAspect ==
    \A i \in Saved :
        LET c == downloads[i].file.crop
        IN /\ InsideSource(NaturalWidth(downloads[i].src),
                           NaturalHeight(downloads[i].src), c)
           /\ Over[c.sWidth, c.sHeight] = StatedTarget(downloads[i].aspect)

\* C21, amended: the crop rectangle of an exported file lies inside the
\* source, keeps one full source dimension, and has the target aspect ratio
\* p:q up to the rounding of the double arithmetic that computes it:
\* |q * sWidth - p * sHeight| <= p * sHeight * 2^-52.
C21_CropInsideRoundedAspect ==
    \A i \in Saved :
        LET c == downloads[i].file.crop
            r == StatedRatio(downloads[i].aspect)
            ideal == ExactProduct(Number[r[1]], c.sHeight)
            off == Magnitude(ExactDifference(ExactProduct(Number[r[2]], c.sWidth), ideal))
        IN /\ InsideSource(NaturalWidth(downloads[i].src),
                           NaturalHeight(downloads[i].src), c)
           /\ AtMost(off, Scaled(ideal, -52))

\* an export whose width was narrowed and whose ratio, computed in doubles,
\* is not the target
C21_Witness ==
    \E i \in Saved :
        LET c == downloads[i].file.crop
        IN /\ c.sWidth # Number[NaturalWidth(downloads[i].src)]
           /\ c.sHeight = Number[NaturalHeight(downloads[i].src)]
           /\ Over[c.sWidth, c.sHeight] # StatedTarget(downloads[i].aspect)

====
